---- MODULE Spec2Model ----
(***************************************************************************)
(* ESP32-C3 motor controller (esp32_motor_micropython.py).                 *)
(*                                                                         *)
(* The program is one thread: main() stops the motor, then loops           *)
(* accept -> handle_request -> accept.  handle_request reads one request,  *)
(* parses it, routes it (possibly starting or stopping the motor), sends   *)
(* one response and closes the connection in a finally block.              *)
(*                                                                         *)
(* Text is modelled as a sequence of symbols [t, v]: whitespace, newline,  *)
(* opaque words and JSON tokens.  split, strip and json.loads are computed *)
(* on those sequences.                                                     *)
(*                                                                         *)
(* KeyboardInterrupt is delivered where the MicroPython runtime polls for  *)
(* it: in the blocking calls accept, recv, send and sleep and at the       *)
(* branches of the try body.  start_motor and stop_motor are straight-line *)
(* code and run to completion.  Not modelled: setup_wifi, the socket       *)
(* set-up of main, the Content-Length header, print.  conn.close() and    *)
(* the pin writes are taken not to fail.                                   *)
(***************************************************************************)
EXTENDS Integers, Sequences, FiniteSets, TLC

VARIABLES
    pc,             \* position of the single thread
    motor_running,  \* global flag (line 30)
    motor_speed,    \* global (line 31)
    MOTOR_PIN1,     \* output level of GPIO2
    MOTOR_PIN2,     \* output level of GPIO3
    STATUS_LED,     \* output level of GPIO4
    conn,           \* the connection of the current/last handle_request call
    nopen,          \* accepted sockets not yet closed
    listening,      \* the server socket s is open
    request,        \* handle_request local: decoded text
    method,         \* handle_request local
    path,           \* handle_request local
    body,           \* handle_request local
    response,       \* handle_request locals response and content_type
    pending,        \* exception propagating through the finally block
    last_call,      \* history: the motor call made most recently
    pre,            \* history: motor state when the connection was accepted
    last            \* history: summary of the previously closed connection

vars == <<pc, motor_running, motor_speed, MOTOR_PIN1, MOTOR_PIN2, STATUS_LED,
          conn, nopen, listening, request, method, path, body, response,
          pending, last_call, pre, last>>

motor == <<motor_running, motor_speed, MOTOR_PIN1, MOTOR_PIN2, STATUS_LED, last_call>>
locals == <<request, method, path, body, response>>

-----------------------------------------------------------------------------
(* Bounds of the input space.                                              *)

\* header lines between the request line and the blank line
MaxHeaders == 1
\* lines after the first line that follows the blank line
MaxExtra == 1

-----------------------------------------------------------------------------
(* Text: symbols and the string operations the program uses.               *)

W(s) == [t |-> "word", v |-> s]
S(s) == [t |-> "str", v |-> s]
L(s) == [t |-> "lit", v |-> s]
N(s) == [t |-> "num", v |-> s]
P(s) == [t |-> "punct", v |-> s]
SP == [t |-> "ws", v |-> " "]
CR == [t |-> "ws", v |-> "\r"]
NL == [t |-> "ws", v |-> "\n"]

\* characters str.strip() and the JSON grammar treat as whitespace
IsSpace(c) == c.t = "ws"

\* str.split(sep): every occurrence of sep separates, empty pieces are kept
Split(s, sep) ==
    LET RECURSIVE F(_, _, _)
        F(i, cur, acc) ==
            IF i > Len(s) THEN Append(acc, cur)
            ELSE IF s[i] = sep THEN F(i + 1, <<>>, Append(acc, cur))
            ELSE F(i + 1, Append(cur, s[i]), acc)
    IN F(1, <<>>, <<>>)

\* str.strip(): leading and trailing whitespace removed
Strip(s) ==
    LET keep == {i \in 1..Len(s) : ~IsSpace(s[i])}
    IN IF keep = {} THEN <<>>
       ELSE LET lo == CHOOSE i \in keep : \A j \in keep : i <= j
                hi == CHOOSE i \in keep : \A j \in keep : j <= i
            IN SubSeq(s, lo, hi)

\* variant: str(bool) without .lower()
BoolStr(b) == IF b THEN "True" ELSE "False"

\* str(bool).lower()
BoolLower(b) == IF b THEN "true" ELSE "false"

\* str(int) of a non-negative integer, as its decimal digits
DigitChar(d) == <<"0", "1", "2", "3", "4", "5", "6", "7", "8", "9">>[d + 1]
RECURSIVE IntStr(_)
IntStr(n) == IF n < 10 THEN <<DigitChar(n)>>
             ELSE Append(IntStr(n \div 10), DigitChar(n % 10))

-----------------------------------------------------------------------------
(* json.loads, on the token sequence of the text.  A value is a scalar     *)
(* token, an empty array or object, an array of scalars, or an object      *)
(* whose member values are scalars or empty containers.                    *)

JsonFail == [ok |-> FALSE, kind |-> "none", obj |-> <<>>]
JsonOther == [ok |-> TRUE, kind |-> "other", obj |-> <<>>]
JsonDict(d) == [ok |-> TRUE, kind |-> "object", obj |-> d]

IsScalar(tok) == tok.t \in {"str", "lit", "num"}

\* the member value that starts at toks[i]: [ok, val, next]
ValueAt(toks, i) ==
    IF i > Len(toks) THEN [ok |-> FALSE, val |-> L("null"), next |-> i]
    ELSE IF IsScalar(toks[i]) THEN [ok |-> TRUE, val |-> toks[i], next |-> i + 1]
    ELSE IF i < Len(toks) /\ toks[i] = P("[") /\ toks[i + 1] = P("]")
        THEN [ok |-> TRUE, val |-> [t |-> "arr", v |-> "[]"], next |-> i + 2]
    ELSE IF i < Len(toks) /\ toks[i] = P("{") /\ toks[i + 1] = P("}")
        THEN [ok |-> TRUE, val |-> [t |-> "obj", v |-> "{}"], next |-> i + 2]
    ELSE [ok |-> FALSE, val |-> L("null"), next |-> i]

\* members of an object from toks[i] on; a repeated key keeps the last value
RECURSIVE ParseMembers(_, _, _)
ParseMembers(toks, i, acc) ==
    IF i + 2 > Len(toks) THEN JsonFail
    ELSE IF toks[i].t # "str" \/ toks[i + 1] # P(":") THEN JsonFail
    ELSE LET m == ValueAt(toks, i + 2)
             acc2 == (toks[i].v :> m.val) @@ acc
         IN IF ~m.ok \/ m.next > Len(toks) THEN JsonFail
            ELSE IF toks[m.next] = P("}")
                THEN (IF m.next = Len(toks) THEN JsonDict(acc2) ELSE JsonFail)
            ELSE IF toks[m.next] = P(",") THEN ParseMembers(toks, m.next + 1, acc2)
            ELSE JsonFail

\* elements of an array from toks[i] on
RECURSIVE ParseElements(_, _)
ParseElements(toks, i) ==
    IF i + 1 > Len(toks) \/ ~IsScalar(toks[i]) THEN JsonFail
    ELSE IF toks[i + 1] = P("]")
        THEN (IF i + 1 = Len(toks) THEN JsonOther ELSE JsonFail)
    ELSE IF toks[i + 1] = P(",") THEN ParseElements(toks, i + 2)
    ELSE JsonFail

JsonLoads(text) ==
    LET toks == SelectSeq(text, LAMBDA c : ~IsSpace(c))
    IN IF Len(toks) = 0 THEN JsonFail
       ELSE IF IsScalar(toks[1])
           THEN (IF Len(toks) = 1 THEN JsonOther ELSE JsonFail)
       ELSE IF toks[1] = P("[")
           THEN (IF Len(toks) = 2 /\ toks[2] = P("]") THEN JsonOther
                 ELSE ParseElements(toks, 2))
       ELSE IF toks[1] = P("{")
           THEN (IF Len(toks) = 2 /\ toks[2] = P("}") THEN JsonDict(<<>>)
                 ELSE ParseMembers(toks, 2, <<>>))
       ELSE JsonFail

\* dict.get(key, default)
DictGet(d, key, default) == IF key \in DOMAIN d THEN d[key] ELSE default

\* truth value of a parsed JSON value in an if statement
Truthy(val) ==
    CASE val.t = "lit" -> val.v = "true"
      [] val.t = "num" -> val.v # "0"
      [] val.t = "str" -> val.v # ""
      [] OTHER -> FALSE

-----------------------------------------------------------------------------
(* The requests a client may send: a first line, then header lines, a      *)
(* blank line and body lines, joined by newlines.                          *)

Methods == {"GET", "POST", "post"}
Paths == {"/", "/status", "/alarm", "/motor/start", "/motor/stop", "/unknown/path"}
LineEnds == {<<>>, <<CR>>}

\* METHOD PATH VERSION, with or without the carriage return of a CRLF
WellFormedLines ==
    {<<W(m), SP, W(p), SP, W("HTTP/1.1")>> \o e :
        m \in Methods, p \in Paths, e \in LineEnds}
    \cup {<<SP, SP>>}

\* first lines that do not split into three tokens: an empty read, one, two
\* and four tokens, and a doubled space
MalformedLines ==
    {<<>>}
    \cup {<<W(m)>> : m \in Methods}
    \cup {<<W(m), SP, W(p)>> : m \in Methods, p \in Paths}
    \cup {<<W(m), SP, W(p), SP, W("HTTP/1.1"), SP, W("x")>> :
            m \in Methods, p \in Paths}
    \cup {<<W(m), SP, SP, W(p), SP, W("HTTP/1.1")>> : m \in Methods, p \in Paths}

AlarmLines == {<<W("POST"), SP, W("/alarm"), SP, W("HTTP/1.1")>> \o e : e \in LineEnds}

Actions == {"add", "update", "toggle", "delete", "snooze"}

Member(k, val) == <<S(k), P(":"), val>>
Obj(members) == <<P("{")>> \o members \o <<P("}")>>

\* body lines that are JSON objects
ObjectBodies ==
    {Obj(Member("action", S(a)) \o <<P(",")>> \o Member("enabled", L(e))) :
        a \in Actions, e \in {"true", "false"}}
    \cup {Obj(Member("action", S(a))) : a \in Actions}
    \cup {Obj(Member("action", S("toggle")) \o <<P(",")>> \o Member("enabled", e)) :
            e \in {N("1"), N("0"), S("false"), S(""), L("null")}}
    \cup {Obj(<<>>),
          Obj(Member("enabled", L("true"))),
          Obj(Member("action", L("null")) \o <<P(",")>> \o Member("enabled", L("true"))),
          Obj(Member("enabled", L("true")) \o <<P(",")>> \o Member("action", S("add"))
              \o <<P(",")>> \o Member("enabled", L("false"))),
          Obj(Member("action", S("update")) \o <<P(","), SP>>
              \o <<S("enabled"), P(":"), SP, P("["), P("]")>>) \o <<CR>>,
          <<P("{"), S("action"), P(":"), SP, S("toggle"), P(","), SP,
            S("enabled"), P(":"), SP, L("true"), P("}"), CR>>}

\* body lines that are JSON but no object
NonObjectBodies ==
    {<<L("true")>>, <<L("null")>>, <<N("1")>>, <<S("toggle")>>,
     <<P("["), P("]")>>, <<P("["), S("add"), P(","), L("true"), P("]")>>}

\* body lines that are not JSON
InvalidBodies ==
    {<<W("not"), SP, W("json")>>,
     <<P("{"), S("action"), P(":"), S("toggle")>>,
     <<P("{"), S("action"), S("toggle"), P("}")>>,
     <<P("{"), S("action"), P(":"), S("toggle"), P(","), P("}")>>,
     <<P("{"), S("action"), P(":"), S("add"), P("}"), P("}")>>,
     <<W("action=toggle&enabled=true")>>}

BlankLines == {<<>>, <<CR>>}
HeaderLine == <<W("Host:"), SP, W("192.168.4.1"), CR>>
Bodies == ObjectBodies \cup NonObjectBodies \cup InvalidBodies

\* lines a client may send after the body line
ExtraLines ==
    {<<>>,
     Obj(Member("action", S("add")) \o <<P(",")>> \o Member("enabled", L("true"))),
     Obj(Member("action", S("delete")))}

SeqsUpTo(set, n) == UNION {[1..k -> set] : k \in 0..n}

\* what follows the first line
Tails ==
    LET heads == {[i \in 1..k |-> HeaderLine] : k \in 0..MaxHeaders}
        rest == {<<>>}
                \cup {<<b>> \o x \o ex :
                        b \in BlankLines, x \in {<<>>} \cup {<<l>> : l \in Bodies \cup BlankLines},
                        ex \in SeqsUpTo(ExtraLines, MaxExtra)}
    IN {h \o r : h \in heads, r \in rest}

SmallTails ==
    {<<>>, <<HeaderLine, <<CR>>, <<>>>>,
     <<HeaderLine, <<CR>>,
       Obj(Member("action", S("toggle")) \o <<P(",")>> \o Member("enabled", L("true")))>>}

\* "\n".join(lines)
RECURSIVE Join(_)
Join(lines) ==
    IF Len(lines) = 0 THEN <<>>
    ELSE IF Len(lines) = 1 THEN lines[1]
    ELSE lines[1] \o <<NL>> \o Join(Tail(lines))

Requests ==
    {Join(<<l>> \o t) : l \in AlarmLines, t \in Tails}
    \cup {Join(<<l>> \o t) : l \in WellFormedLines \cup MalformedLines, t \in SmallTails}

-----------------------------------------------------------------------------
(* State.                                                                  *)

InitialSpeed == 128

MotorState ==
    [running |-> motor_running, speed |-> motor_speed,
     pin1 |-> MOTOR_PIN1, pin2 |-> MOTOR_PIN2, led |-> STATUS_LED]

NoConn == [state |-> "none", closes |-> 0, sent |-> <<>>]
NoResponse == [body |-> <<>>, content_type |-> ""]
NoLast == [kind |-> "none", resp |-> <<>>, running |-> FALSE]

Json(text) == [body |-> text, content_type |-> "application/json"]
Html(text) == [body |-> text, content_type |-> "text/html"]

Success == <<"{\"status\": \"success\"}">>
InvalidData == <<"{\"error\": \"Invalid data\"}">>
MotorStarted == <<"{\"status\": \"Motor started\"}">>
MotorStopped == <<"{\"status\": \"Motor stopped\"}">>
NotFound == <<"{\"error\": \"Not found\"}">>

\* the f-string of line 115
StatusBody(running, speed) ==
    <<"{\"status\": \"online\", \"motor_running\": ", BoolLower(running),
      ", \"motor_speed\": ">> \o IntStr(speed) \o <<"}">>

\* the f-string of lines 133-141
RootPage(running, speed) ==
    <<"<html><body><h1>ESP32-C3 Motor Controller</h1><p>Motor Status: ",
      IF running THEN "RUNNING" ELSE "STOPPED", "</p><p>Speed: ">>
    \o IntStr(speed)
    \o <<"</p><button onclick=\"fetch('/motor/start', {method:'POST'})\">START MOTOR</button>",
         "<button onclick=\"fetch('/motor/stop', {method:'POST'})\">STOP MOTOR</button></body></html>">>

\* the f-string of lines 149-154, without its Content-Length header
HttpResponse(r) ==
    [status_line |-> "HTTP/1.1 200 OK", content_type |-> r.content_type,
     connection |-> "close", body |-> r.body]

Tok(s) == <<W(s)>>

Init ==
    /\ pc = "main"
    /\ motor_running = FALSE
    /\ motor_speed = InitialSpeed
    /\ MOTOR_PIN1 \in BOOLEAN
    /\ MOTOR_PIN2 \in BOOLEAN
    /\ STATUS_LED \in BOOLEAN
    /\ conn = NoConn
    /\ nopen = 0
    /\ listening = FALSE
    /\ request = <<>>
    /\ method = <<>>
    /\ path = <<>>
    /\ body = <<>>
    /\ response = NoResponse
    /\ pending = "none"
    /\ last_call = "none"
    /\ pre = MotorState
    /\ last = NoLast

-----------------------------------------------------------------------------
(* The motor.                                                              *)

\* variant: stop_motor without its global statement (the flag stays as it was)
stop_motor_no_global ==
    /\ MOTOR_PIN1' = FALSE
    /\ MOTOR_PIN2' = FALSE
    /\ STATUS_LED' = FALSE
    /\ last_call' = "stop_motor"
    /\ UNCHANGED <<motor_running, motor_speed>>

stop_motor ==
    /\ motor_running' = FALSE
    /\ MOTOR_PIN1' = FALSE
    /\ MOTOR_PIN2' = FALSE
    /\ STATUS_LED' = FALSE
    /\ last_call' = "stop_motor"
    /\ UNCHANGED motor_speed

\* variant: start_motor driving both control pins high
start_motor_both_pins ==
    /\ motor_running' = TRUE
    /\ MOTOR_PIN1' = TRUE
    /\ MOTOR_PIN2' = TRUE
    /\ STATUS_LED' = TRUE
    /\ last_call' = "start_motor"
    /\ UNCHANGED motor_speed

start_motor ==
    /\ motor_running' = TRUE
    /\ MOTOR_PIN1' = TRUE
    /\ MOTOR_PIN2' = FALSE
    /\ STATUS_LED' = TRUE
    /\ last_call' = "start_motor"
    /\ UNCHANGED motor_speed

\* variant: delete handled like add, update and toggle
process_alarm_command_delete_enabled(data) ==
    LET alarm_data == JsonLoads(data)
    IN IF ~alarm_data.ok \/ alarm_data.kind # "object"
       THEN /\ response' = Json(InvalidData)
            /\ UNCHANGED motor
       ELSE LET action == DictGet(alarm_data.obj, "action", S(""))
                enabled == DictGet(alarm_data.obj, "enabled", L("false"))
            IN /\ IF action \in {S("add"), S("update"), S("toggle"), S("delete")}
                  THEN (IF Truthy(enabled) THEN start_motor ELSE stop_motor)
                  ELSE UNCHANGED motor
               /\ response' = Json(Success)

\* variant: the except clause stops the motor before it answers
process_alarm_command_stop_on_error(data) ==
    LET alarm_data == JsonLoads(data)
    IN IF ~alarm_data.ok \/ alarm_data.kind # "object"
       THEN /\ response' = Json(InvalidData)
            /\ stop_motor
       ELSE LET action == DictGet(alarm_data.obj, "action", S(""))
                enabled == DictGet(alarm_data.obj, "enabled", L("false"))
            IN /\ IF action \in {S("add"), S("update"), S("toggle")}
                  THEN (IF Truthy(enabled) THEN start_motor ELSE stop_motor)
                  ELSE IF action = S("delete") THEN stop_motor
                  ELSE UNCHANGED motor
               /\ response' = Json(Success)

\* lines 71-91; json.loads raising, and .get on a value that is no dict,
\* both reach the except clause before any motor call
process_alarm_command(data) ==
    LET alarm_data == JsonLoads(data)
    IN IF ~alarm_data.ok \/ alarm_data.kind # "object"
       THEN /\ response' = Json(InvalidData)
            /\ UNCHANGED motor
       ELSE LET action == DictGet(alarm_data.obj, "action", S(""))
                enabled == DictGet(alarm_data.obj, "enabled", L("false"))
            IN /\ IF action \in {S("add"), S("update"), S("toggle")}
                  THEN (IF Truthy(enabled) THEN start_motor ELSE stop_motor)
                  ELSE IF action = S("delete") THEN stop_motor
                  ELSE UNCHANGED motor
               /\ response' = Json(Success)

-----------------------------------------------------------------------------
(* main and handle_request.                                                *)

\* lines 163-179: the initial stop_motor(), then the listening socket
MainStart ==
    /\ pc = "main"
    /\ stop_motor
    /\ listening' = TRUE
    /\ pc' = "accept"
    /\ UNCHANGED <<conn, nopen, locals, pending, pre, last>>

\* line 184 returns a connection, line 185 enters handle_request
Accept ==
    /\ pc = "accept"
    /\ conn' = [state |-> "open", closes |-> 0, sent |-> <<>>]
    /\ nopen' = nopen + 1
    /\ pre' = MotorState
    /\ pending' = "none"
    /\ pc' = "recv"
    /\ UNCHANGED <<motor, listening, locals, last>>

\* line 184 raises an Exception: lines 189-190
AcceptError ==
    /\ pc = "accept"
    /\ pc' = "sleep"
    /\ UNCHANGED <<motor, conn, nopen, listening, locals, pending, pre, last>>

\* line 191 returns, the loop goes round
Sleep ==
    /\ pc = "sleep"
    /\ pc' = "accept"
    /\ UNCHANGED <<motor, conn, nopen, listening, locals, pending, pre, last>>

\* KeyboardInterrupt in accept: lines 186-188
InterruptAccept ==
    /\ pc = "accept"
    /\ pending' = "KeyboardInterrupt"
    /\ pc' = "shutdown"
    /\ UNCHANGED <<motor, conn, nopen, listening, locals, pre, last>>

\* KeyboardInterrupt in time.sleep, inside the except clause of line 189:
\* no clause of the same try catches it and main ends without line 193
InterruptSleep ==
    /\ pc = "sleep"
    /\ pending' = "KeyboardInterrupt"
    /\ pc' = "done"
    /\ UNCHANGED <<motor, conn, nopen, listening, locals, pre, last>>

\* line 96: one read, decoded
Recv ==
    /\ pc = "recv"
    /\ \E req \in Requests : request' = req
    /\ pc' = "parse"
    /\ UNCHANGED <<motor, conn, nopen, listening, method, path, body, response,
                   pending, pre, last>>

\* line 96 raises (connection reset, bytes that are not UTF-8)
RecvError ==
    /\ pc = "recv"
    /\ pc' = "except"
    /\ UNCHANGED <<motor, conn, nopen, listening, locals, pending, pre, last>>

\* variant: the loop of lines 108-111 without its break
BodyScanNoBreak(lines, i) ==
    LET found == {j \in i..(Len(lines) - 1) : Strip(lines[j]) = <<>>}
    IN IF found = {} THEN <<>>
       ELSE lines[(CHOOSE j \in found : \A k \in found : k <= j) + 1]

\* lines 108-111: the line after the first blank line that has one
RECURSIVE BodyScan(_, _)
BodyScan(lines, i) ==
    IF i > Len(lines) THEN <<>>
    ELSE IF Strip(lines[i]) = <<>> /\ i < Len(lines) THEN lines[i + 1]
    ELSE BodyScan(lines, i + 1)

\* lines 106-111
GetBody(m, lines) == IF m = Tok("POST") THEN BodyScan(lines, 1) ELSE <<>>

\* variant: an unpacking that takes the first three tokens and drops the rest
UnpacksAtLeast(tokens) == Len(tokens) >= 3

\* the unpacking of line 103 raises ValueError unless there are three tokens
Unpacks(tokens) == Len(tokens) = 3

\* lines 100-111; split always returns a list with at least one element, so
\* the test of line 101 passes
Parse ==
    /\ pc = "parse"
    /\ LET lines == Split(request, NL)
           tokens == Split(lines[1], SP)
       IN IF Unpacks(tokens)
          THEN /\ method' = tokens[1]
               /\ path' = tokens[2]
               /\ body' = GetBody(tokens[1], lines)
               /\ pc' = "route"
          ELSE /\ pc' = "except"
               /\ UNCHANGED <<method, path, body>>
    /\ UNCHANGED <<motor, conn, nopen, listening, request, response, pending, pre, last>>

\* variant: /motor/start routed without the test of the method
DispatchStartAnyMethod ==
    IF path = Tok("/status")
    THEN /\ response' = Json(StatusBody(motor_running, motor_speed))
         /\ UNCHANGED motor
    ELSE IF path = Tok("/alarm") /\ method = Tok("POST")
    THEN process_alarm_command(body)
    ELSE IF path = Tok("/motor/start")
    THEN /\ start_motor
         /\ response' = Json(MotorStarted)
    ELSE IF path = Tok("/motor/stop") /\ method = Tok("POST")
    THEN /\ stop_motor
         /\ response' = Json(MotorStopped)
    ELSE IF path = Tok("/")
    THEN /\ response' = Html(RootPage(motor_running, motor_speed))
         /\ UNCHANGED motor
    ELSE /\ response' = Json(NotFound)
         /\ UNCHANGED motor

\* lines 114-146
Dispatch ==
    IF path = Tok("/status")
    THEN /\ response' = Json(StatusBody(motor_running, motor_speed))
         /\ UNCHANGED motor
    ELSE IF path = Tok("/alarm") /\ method = Tok("POST")
    THEN process_alarm_command(body)
    ELSE IF path = Tok("/motor/start") /\ method = Tok("POST")
    THEN /\ start_motor
         /\ response' = Json(MotorStarted)
    ELSE IF path = Tok("/motor/stop") /\ method = Tok("POST")
    THEN /\ stop_motor
         /\ response' = Json(MotorStopped)
    ELSE IF path = Tok("/")
    THEN /\ response' = Html(RootPage(motor_running, motor_speed))
         /\ UNCHANGED motor
    ELSE /\ response' = Json(NotFound)
         /\ UNCHANGED motor

Route ==
    /\ pc = "route"
    /\ Dispatch
    /\ pc' = "send"
    /\ UNCHANGED <<conn, nopen, listening, request, method, path, body, pending, pre, last>>

\* lines 149-156
Send ==
    /\ pc = "send"
    /\ conn' = [conn EXCEPT !.sent = Append(@, HttpResponse(response))]
    /\ pc' = "finally"
    /\ UNCHANGED <<motor, nopen, listening, locals, pending, pre, last>>

\* line 156 raises (the client went away)
SendError ==
    /\ pc = "send"
    /\ pc' = "except"
    /\ UNCHANGED <<motor, conn, nopen, listening, locals, pending, pre, last>>

\* lines 158-159
Except ==
    /\ pc = "except"
    /\ pc' = "finally"
    /\ UNCHANGED <<motor, conn, nopen, listening, locals, pending, pre, last>>

\* variant: conn.close() after the try statement instead of in a finally clause
InterruptRequestNoFinally ==
    /\ pc \in {"recv", "parse", "route", "send"}
    /\ pending' = "KeyboardInterrupt"
    /\ pc' = "shutdown"
    /\ UNCHANGED <<motor, conn, nopen, listening, locals, pre, last>>

\* KeyboardInterrupt inside the try body: no Exception, so line 158 does
\* not catch it and it propagates through the finally block
InterruptRequest ==
    /\ pc \in {"recv", "parse", "route", "send"}
    /\ pending' = "KeyboardInterrupt"
    /\ pc' = "finally"
    /\ UNCHANGED <<motor, conn, nopen, listening, locals, pre, last>>

\* which route answered the connection that is being closed
LastKind ==
    IF response = NoResponse THEN "dropped"
    ELSE IF path = Tok("/status") THEN "status"
    ELSE IF path = Tok("/alarm") /\ method = Tok("POST") THEN "alarm"
    ELSE IF path = Tok("/motor/start") /\ method = Tok("POST") THEN "start"
    ELSE IF path = Tok("/motor/stop") /\ method = Tok("POST") THEN "stop"
    ELSE "other"

\* variant: conn.close() at the end of the try body, after the send
FinallyCloseAfterSend ==
    /\ pc = "finally"
    /\ conn' = IF conn.sent # <<>>
               THEN [conn EXCEPT !.state = "closed", !.closes = @ + 1]
               ELSE conn
    /\ nopen' = IF conn.sent # <<>> THEN nopen - 1 ELSE nopen
    /\ request' = <<>>
    /\ method' = <<>>
    /\ path' = <<>>
    /\ body' = <<>>
    /\ response' = NoResponse
    /\ last' = [kind |-> LastKind,
                resp |-> IF LastKind \in {"alarm", "start", "stop"} /\ conn.sent # <<>>
                         THEN conn.sent[1].body ELSE <<>>,
                running |-> motor_running]
    /\ pc' = IF pending = "none" THEN "accept" ELSE "shutdown"
    /\ UNCHANGED <<motor, listening, pending, pre>>

\* lines 160-161, then back in main: line 182 or lines 186-188
Finally ==
    /\ pc = "finally"
    /\ conn' = [conn EXCEPT !.state = "closed", !.closes = @ + 1]
    /\ nopen' = nopen - 1
    /\ request' = <<>>
    /\ method' = <<>>
    /\ path' = <<>>
    /\ body' = <<>>
    /\ response' = NoResponse
    /\ last' = [kind |-> LastKind,
                resp |-> IF LastKind \in {"alarm", "start", "stop"} /\ conn.sent # <<>>
                         THEN conn.sent[1].body ELSE <<>>,
                running |-> motor_running]
    /\ pc' = IF pending = "none" THEN "accept" ELSE "shutdown"
    /\ UNCHANGED <<motor, listening, pending, pre>>

\* lines 187-188 and 193
Shutdown ==
    /\ pc = "shutdown"
    /\ listening' = FALSE
    /\ pc' = "done"
    /\ UNCHANGED <<motor, conn, nopen, locals, pending, pre, last>>

Next ==
    \/ MainStart
    \/ Accept
    \/ AcceptError
    \/ Sleep
    \/ InterruptAccept
    \/ InterruptSleep
    \/ Recv
    \/ RecvError
    \/ Parse
    \/ Route
    \/ Send
    \/ SendError
    \/ Except
    \/ InterruptRequest
    \/ Finally
    \/ Shutdown

Spec == Init /\ [][Next]_vars

-----------------------------------------------------------------------------
(* Properties.                                                             *)

RunningConfig == motor_running /\ MOTOR_PIN1 /\ ~MOTOR_PIN2 /\ STATUS_LED
StoppedConfig == ~motor_running /\ ~MOTOR_PIN1 /\ ~MOTOR_PIN2 /\ ~STATUS_LED

\* the thread is inside handle_request, after the routing of lines 114-146
Routed == pc \in {"send", "except", "finally"} /\ response # NoResponse

IsPost == method = <<W("POST")>>
StatusText(b) ==
    <<"{\"status\": \"online\", \"motor_running\": ", IF b THEN "true" ELSE "false",
      ", \"motor_speed\": ", "1", "2", "8", "}">>
SentBodies == [i \in 1..Len(conn.sent) |-> conn.sent[i].body]

\* C1: once main has made its initial stop_motor call, the flag and the three
\* outputs are in the running configuration (pin1 high, pin2 low, LED on) or in
\* the stopped one (all low), the flag is the intent of the most recent
\* start_motor/stop_motor call, and pin2 is never high.
C1_OutputsMatchFlag ==
    pc # "main" =>
        /\ RunningConfig \/ StoppedConfig
        /\ ~MOTOR_PIN2
        /\ last_call \in {"start_motor", "stop_motor"}
        /\ motor_running <=> last_call = "start_motor"

\* a start that follows a served POST /motor/stop
C1_Witness ==
    /\ last.kind = "stop"
    /\ last_call = "start_motor"
    /\ RunningConfig
    /\ pc = "finally"

\* C4: a /status request, with any method, is answered with the current flag
\* and motor_speed 128 and changes neither the flag, the speed nor the pins;
\* motor_speed is 128 in every reachable state.
C4_StatusReportsFlag ==
    /\ motor_speed = 128
    /\ (Routed /\ path = <<W("/status")>>) =>
            /\ response = [body |-> StatusText(motor_running),
                           content_type |-> "application/json"]
            /\ MotorState = pre
            /\ SentBodies \in {<<>>, <<StatusText(motor_running)>>}

\* a POST to /status answered while the motor runs
C4_Witness ==
    /\ pc = "finally"
    /\ path = <<W("/status")>>
    /\ IsPost
    /\ motor_running
    /\ SentBodies = <<StatusText(TRUE)>>

\* C7: POST /motor/stop answers "Motor stopped" and leaves the stopped
\* configuration from either prior state, and a second one in a row gives the
\* state and the response of the first; POST /motor/start answers "Motor
\* started" and leaves the flag true.
C7_StopStartIdempotent ==
    /\ (Routed /\ IsPost /\ path = <<W("/motor/stop")>>) =>
            /\ response = [body |-> <<"{\"status\": \"Motor stopped\"}">>,
                           content_type |-> "application/json"]
            /\ StoppedConfig
            /\ SentBodies \in {<<>>, <<response.body>>}
            /\ last.kind = "stop" =>
                    /\ MotorState = pre
                    /\ last.resp \in {<<>>, response.body}
    /\ (Routed /\ IsPost /\ path = <<W("/motor/start")>>) =>
            /\ response = [body |-> <<"{\"status\": \"Motor started\"}">>,
                           content_type |-> "application/json"]
            /\ motor_running
            /\ SentBodies \in {<<>>, <<response.body>>}

\* the second of two answered POST /motor/stop requests in a row
C7_Witness ==
    /\ pc = "finally"
    /\ IsPost
    /\ path = <<W("/motor/stop")>>
    /\ last.kind = "stop"
    /\ last.resp = <<"{\"status\": \"Motor stopped\"}">>
    /\ SentBodies = <<last.resp>>

IsAlarm == IsPost /\ path = <<W("/alarm")>>
JsonAnswer(text) == [body |-> <<text>>, content_type |-> "application/json"]
Framed(r) ==
    [status_line |-> "HTTP/1.1 200 OK", content_type |-> r.content_type,
     connection |-> "close", body |-> r.body]

\* the text {"action":"a","enabled":e} and the text {"action":"a"}
ActionEnabled(a, e) ==
    <<P("{"), S("action"), P(":"), S(a), P(","), S("enabled"), P(":"), L(e), P("}")>>
ActionOnly(a) == <<P("{"), S("action"), P(":"), S(a), P("}")>>

\* the flag after an alarm command, by the table of the specification
RefRunning(a, enabled, before) ==
    IF a \in {"add", "update", "toggle"} THEN enabled
    ELSE IF a = "delete" THEN FALSE
    ELSE before

\* C2: a POST /alarm whose body is a JSON object is answered
\* {"status": "success"}; add, update and toggle leave the flag equal to
\* enabled (false when absent), delete leaves it false, any other or missing
\* action leaves the motor as it was; a /status request that follows reports
\* the flag the alarm request left.
C2_AlarmFollowsReference ==
    /\ (Routed /\ IsAlarm /\ body \in ObjectBodies) =>
            /\ response = JsonAnswer("{\"status\": \"success\"}")
            /\ SentBodies \in {<<>>, <<response.body>>}
    /\ \A a \in Actions :
        (Routed /\ IsAlarm) =>
            /\ body = ActionEnabled(a, "true") =>
                    motor_running = RefRunning(a, TRUE, pre.running)
            /\ body = ActionEnabled(a, "false") =>
                    motor_running = RefRunning(a, FALSE, pre.running)
            /\ body = ActionOnly(a) =>
                    motor_running = RefRunning(a, FALSE, pre.running)
            /\ (a \notin {"add", "update", "toggle", "delete"}
                  /\ body \in {ActionEnabled(a, "true"), ActionEnabled(a, "false"),
                               ActionOnly(a)}) => MotorState = pre
    /\ (Routed /\ IsAlarm
          /\ body \in {<<P("{"), P("}")>>,
                       <<P("{"), S("enabled"), P(":"), L("true"), P("}")>>}) =>
            MotorState = pre
    /\ (Routed /\ path = <<W("/status")>> /\ last.kind = "alarm") =>
            response.body = StatusText(last.running)

\* {"action":"toggle","enabled":true} answered, the motor started by it
C2_Witness ==
    /\ pc = "finally"
    /\ IsAlarm
    /\ body = ActionEnabled("toggle", "true")
    /\ ~pre.running
    /\ RunningConfig
    /\ SentBodies = <<<<"{\"status\": \"success\"}">>>>

Unprocessable == InvalidBodies \cup NonObjectBodies \cup BlankLines

\* C3: a POST /alarm whose body is not JSON, is empty, or is JSON but no
\* object is answered {"error": "Invalid data"}, the answer is what the send
\* of lines 149-156 puts on the connection, and the flag and the three pins
\* are as they were when the request came in.
C3_InvalidAlarmBody ==
    /\ []((Routed /\ IsAlarm /\ body \in Unprocessable) =>
            /\ response = JsonAnswer("{\"error\": \"Invalid data\"}")
            /\ MotorState = pre
            /\ SentBodies \in {<<>>, <<response.body>>})
    /\ [][(pc = "send" /\ IsAlarm /\ body \in Unprocessable
             /\ pc' = "finally" /\ pending' = "none") =>
            conn'.sent = <<Framed(JsonAnswer("{\"error\": \"Invalid data\"}"))>>]_vars

\* "not json" answered while the motor runs
C3_Witness ==
    /\ pc = "finally"
    /\ IsAlarm
    /\ body = <<W("not"), SP, W("json")>>
    /\ pre.running
    /\ RunningConfig
    /\ SentBodies = <<<<"{\"error\": \"Invalid data\"}">>>>

MatchesRoute ==
    \/ path \in {<<W("/status")>>, <<W("/")>>}
    \/ IsPost /\ path \in {<<W("/alarm")>>, <<W("/motor/start")>>, <<W("/motor/stop")>>}

\* C5: a request whose path and method match no route is answered
\* {"error": "Not found"} under the status line 200 OK and leaves the flag and
\* the pins as they were; a request that is no POST never changes them.
C5_NotFound ==
    /\ (Routed /\ ~MatchesRoute) =>
            /\ response = JsonAnswer("{\"error\": \"Not found\"}")
            /\ MotorState = pre
            /\ conn.sent \in {<<>>, <<Framed(response)>>}
    /\ (pc \in {"route", "send", "except", "finally"} /\ ~IsPost) => MotorState = pre

\* GET /motor/start answered Not found with the motor still stopped
C5_Witness ==
    /\ pc = "finally"
    /\ method = <<W("GET")>>
    /\ path = <<W("/motor/start")>>
    /\ ~motor_running
    /\ conn.sent = <<Framed(JsonAnswer("{\"error\": \"Not found\"}"))>>

\* the spaces of the first line of the request: one less than its tokens
FirstLineLen ==
    LET nls == {i \in 1..Len(request) : request[i] = NL}
    IN IF nls = {} THEN Len(request)
       ELSE (CHOOSE i \in nls : \A j \in nls : i <= j) - 1
SpacesInFirstLine == Cardinality({i \in 1..FirstLineLen : request[i] = SP})
Malformed == SpacesInFirstLine # 2

\* C6: a request whose first line does not split into three tokens is never
\* routed; nothing is sent on its connection, the flag and the pins stay as
\* they were, the connection is closed, and without an interrupt the server
\* is back at accept.
C6_MalformedDropped ==
    /\ [](pc \in {"route", "send"} => ~Malformed)
    /\ []((pc \in {"except", "finally"} /\ Malformed) =>
            /\ conn.sent = <<>>
            /\ response = NoResponse
            /\ MotorState = pre)
    /\ [][(pc = "parse" /\ Malformed /\ pending' = "none") => pc' = "except"]_vars
    /\ [][pc = "except" => (pc' = "finally" /\ conn' = conn /\ pending' = "none")]_vars
    /\ [][pc = "finally" =>
            /\ conn' = [state |-> "closed", closes |-> 1, sent |-> conn.sent]
            /\ nopen' = 0
            /\ MotorState' = MotorState
            /\ pending = "none" => pc' = "accept"]_vars

\* a first line of four tokens dropped while the motor runs
C6_Witness ==
    /\ pc = "finally"
    /\ pending = "none"
    /\ SpacesInFirstLine = 3
    /\ motor_running
    /\ conn.sent = <<>>

InRequest == pc \in {"recv", "parse", "route", "send", "except", "finally"}

\* C8: a connection is open exactly while handle_request runs on it, is closed
\* once, and is closed when the next one is accepted, whether it was answered
\* or dropped; it carries at most one response, sent while it is open; so at
\* most one connection is open and the motor changes only in the routing step
\* of that connection.
C8_OneConnectionClosedOnce ==
    /\ [](/\ nopen <= 1
          /\ conn.closes <= 1
          /\ Len(conn.sent) <= 1
          /\ conn.state = "closed" <=> conn.closes = 1
          /\ conn.state = "open" <=> InRequest
          /\ nopen = 1 <=> conn.state = "open")
    /\ [][(pc = "accept" /\ pc' = "recv") =>
            /\ conn.state \in {"none", "closed"}
            /\ nopen = 0
            /\ conn' = [state |-> "open", closes |-> 0, sent |-> <<>>]]_vars
    /\ [][conn'.sent # conn.sent =>
            \/ conn.state = "open" /\ conn'.state = "open"
            \/ pc = "accept" /\ conn'.sent = <<>>]_vars
    /\ [][MotorState' # MotorState => pc \in {"main", "route"}]_vars

\* a connection accepted after one that was closed without a response
C8_Witness ==
    /\ pc = "recv"
    /\ last.kind = "dropped"
    /\ conn = [state |-> "open", closes |-> 0, sent |-> <<>>]
    /\ nopen = 1

\* C9: the server leaves the accept loop only on a KeyboardInterrupt; an error
\* of accept, or one caught while a connection is handled, leads back to
\* accept with the motor as the error found it; when the interrupt ends the
\* loop no connection is left open.
C9_OnlyInterruptStops ==
    /\ [][(pc \notin {"shutdown", "done"} /\ pc' \in {"shutdown", "done"}) =>
            pending' = "KeyboardInterrupt"]_vars
    /\ [][(pc = "accept" /\ pc' # "recv") =>
            /\ MotorState' = MotorState
            /\ pc' = "sleep" \/ (pc' = "shutdown" /\ pending' = "KeyboardInterrupt")]_vars
    /\ [][pc = "sleep" =>
            /\ MotorState' = MotorState
            /\ pc' = "accept" \/ (pc' = "done" /\ pending' = "KeyboardInterrupt")]_vars
    /\ [][pc = "except" => (pc' = "finally" /\ pending' = "none" /\ MotorState' = MotorState)]_vars
    /\ [][pc = "finally" =>
            /\ MotorState' = MotorState
            /\ conn'.state = "closed"
            /\ pc' = IF pending = "KeyboardInterrupt" THEN "shutdown" ELSE "accept"]_vars
    /\ [](pc \in {"shutdown", "done"} =>
            /\ pending = "KeyboardInterrupt"
            /\ conn.state # "open"
            /\ nopen = 0)

\* the server shut down by an interrupt that arrived before the response of a
\* POST /motor/start was sent
C9_Witness ==
    /\ pc = "shutdown"
    /\ pending = "KeyboardInterrupt"
    /\ conn = [state |-> "closed", closes |-> 1, sent |-> <<>>]
    /\ last.kind = "start"
    /\ motor_running

LinesOf == Split(request, NL)
ExpectedBody ==
    LET ls == LinesOf
        blank == {i \in 1..Len(ls) : \A k \in 1..Len(ls[i]) : IsSpace(ls[i][k])}
        first == CHOOSE i \in blank : \A j \in blank : i <= j
    IN IF blank = {} THEN <<>>
       ELSE IF first = Len(ls) THEN <<>>
       ELSE ls[first + 1]

\* the body lines that start the motor, that stop it, and that leave it
StartTexts ==
    {ActionEnabled(a, "true") : a \in {"add", "update", "toggle"}}
    \cup {<<P("{"), S("action"), P(":"), S("toggle"), P(","), S("enabled"), P(":"), e, P("}")>> :
            e \in {N("1"), S("false")}}
    \cup {<<P("{"), S("action"), P(":"), SP, S("toggle"), P(","), SP,
            S("enabled"), P(":"), SP, L("true"), P("}"), CR>>}
StopTexts ==
    {ActionEnabled(a, "false") : a \in {"add", "update", "toggle", "delete"}}
    \cup {ActionOnly(a) : a \in {"add", "update", "toggle", "delete"}}
    \cup {ActionEnabled("delete", "true")}
    \cup {<<P("{"), S("action"), P(":"), S("toggle"), P(","), S("enabled"), P(":"), e, P("}")>> :
            e \in {N("0"), S(""), L("null")}}
    \cup {<<P("{"), S("enabled"), P(":"), L("true"), P(","), S("action"), P(":"), S("add"),
            P(","), S("enabled"), P(":"), L("false"), P("}")>>,
          <<P("{"), S("action"), P(":"), S("update"), P(","), SP,
            S("enabled"), P(":"), SP, P("["), P("]"), P("}"), CR>>}
KeepTexts == ObjectBodies \ (StartTexts \cup StopTexts)

\* response text and flag of a POST /alarm, from its body line and the flag before
AlarmOutcome(b, before) ==
    IF b \in StartTexts THEN <<"{\"status\": \"success\"}", TRUE>>
    ELSE IF b \in StopTexts THEN <<"{\"status\": \"success\"}", FALSE>>
    ELSE IF b \in KeepTexts THEN <<"{\"status\": \"success\"}", before>>
    ELSE <<"{\"error\": \"Invalid data\"}", before>>

\* C10: the body of a POST is the line after the first whitespace-only line of
\* the request, and empty when that line is the last one or there is none; the
\* response and the flag after a POST /alarm are determined by that line and
\* the flag before, whatever the headers and the lines after it.
C10_BodyIsLineAfterFirstBlank ==
    /\ (pc \in {"route", "send"} /\ IsPost) => body = ExpectedBody
    /\ (pc \in {"route", "send"} /\ ~IsPost) => body = <<>>
    /\ (pc = "send" /\ IsAlarm) =>
            /\ <<response.body[1], motor_running>> = AlarmOutcome(body, pre.running)
            /\ Len(response.body) = 1
            /\ motor_running = pre.running => MotorState = pre

\* a delete answered and obeyed although a later line asks to add and enable
C10_Witness ==
    /\ pc = "send"
    /\ IsAlarm
    /\ body = ActionOnly("delete")
    /\ LET ls == LinesOf
       IN ls[Len(ls)] = ActionEnabled("add", "true") /\ ls[2] = HeaderLine
    /\ pre.running
    /\ StoppedConfig
    /\ response.body = <<"{\"status\": \"success\"}">>

====
